---------------------------- MODULE Spec2Model ----------------------------
(***************************************************************************)
(* A model of .opencode/.ralph/visualize.py: the JSONL event visualizer.   *)
(*                                                                         *)
(* Text is modelled character by character: a Python str is a sequence of  *)
(* one-character strings, so that slicing, splitting, stripping and        *)
(* truncation are computed as the code computes them.  The icons and the   *)
(* tree glyph are single glyph tokens ("<tool>", "<L>").                   *)
(*                                                                         *)
(* console.print(text, style=, end=) is modelled as appending one segment  *)
(* [ln, text, style, end] to the console, where ln is the source line of   *)
(* the call.  The characters the terminal receives are the concatenation   *)
(* of text \o end over the segments (rich's wrapping, markup and colour    *)
(* handling belong to the styled writer and are not modelled).             *)
(*                                                                         *)
(* A Python exception is modelled as a result with raised = TRUE: the      *)
(* segments printed before the raise stay on the console.  The interpreter *)
(* is idealised: no recursion limit, no memory limit, unbounded integers.  *)
(***************************************************************************)
EXTENDS Integers, Sequences, FiniteSets, TLC

VARIABLES
    pc,         \* control position of the specification being run
    debug,      \* debug_mode / the debug argument ("--debug" in sys.argv)
    line,       \* process_stream: the raw line read last from sys.stdin
    nread,      \* process_stream: number of lines read so far
    prev,       \* process_stream: what became of the line before the last one
    last,       \* process_stream: what became of the last line
    console,    \* process_stream: segments printed while handling the last line
    exit_code,  \* __main__: the process exit status (-1 while running)
    event,      \* format_opencode_event: its event argument
    res,        \* format_opencode_event: segments printed, and the exception raised
    sv,         \* safe_str: value argument
    sn,         \* safe_str: max_len argument
    sr,         \* safe_str: result of safe_str(sv, sn)
    sr2         \* safe_str: result of safe_str(sr, sn)

vars == <<pc, debug, line, nread, prev, last, console, exit_code, event, res,
          sv, sn, sr, sr2>>

-----------------------------------------------------------------------------
(* Bounds of the model.                                                    *)

\* longest string given to safe_str in SpecSafeStr
MaxStrLen == 5
\* largest max_len given to safe_str in SpecSafeStr
MaxLimit == 3
\* most keys in a tool_use input payload in SpecRender
MaxInputKeys == 2
\* most lines in the text of a text or thinking event in SpecRender
MaxTextLines == 6
\* most lines read from the stream in Spec
MaxLines == 3

-----------------------------------------------------------------------------
(* Sequence helpers.                                                       *)

Min(a, b) == IF a < b THEN a ELSE b

Max(a, b) == IF a > b THEN a ELSE b

\* s[:n] for a Python str (or list) s: a negative n counts from the end
SliceTo(s, n) ==
    IF n >= 0 THEN SubSeq(s, 1, Min(n, Len(s)))
    ELSE SubSeq(s, 1, Max(0, Len(s) + n))

\* n copies of the character c
Rep(c, n) == [i \in 1..n |-> c]

RECURSIVE Concat(_)
\* the concatenation of a sequence of strings (by halves, to keep the nesting shallow)
Concat(ss) ==
    IF Len(ss) = 0 THEN <<>>
    ELSE IF Len(ss) = 1 THEN ss[1]
    ELSE LET h == Len(ss) \div 2
         IN  Concat(SubSeq(ss, 1, h)) \o Concat(SubSeq(ss, h + 1, Len(ss)))

\* sep.join(ss)
Join(sep, ss) == Concat([i \in 1..Len(ss) |-> IF i = 1 THEN ss[i] ELSE sep \o ss[i]])

\* all sequences over S of length at most n
SeqUpTo(S, n) == UNION {[1..k -> S] : k \in 0..n}

-----------------------------------------------------------------------------
(* Python values, as json.loads builds them.  Every value has the same     *)
(* record shape; t is the Python type name.  A dict is its sequence of     *)
(* <<key, value>> pairs in insertion order (keys distinct); a list is its  *)
(* sequence of <<<<>>, item>> pairs.                                       *)

VStr(s) == [t |-> "str", s |-> s, n |-> 0, kv |-> <<>>]

VInt(n) == [t |-> "int", s |-> <<>>, n |-> n, kv |-> <<>>]

VNone == [t |-> "NoneType", s |-> <<>>, n |-> 0, kv |-> <<>>]

VBool(b) == [t |-> "bool", s |-> <<>>, n |-> IF b THEN 1 ELSE 0, kv |-> <<>>]

VDict(kv) == [t |-> "dict", s |-> <<>>, n |-> 0, kv |-> kv]

VList(xs) == [t |-> "list", s |-> <<>>, n |-> 0, kv |-> [i \in 1..Len(xs) |-> <<<<>>, xs[i]>>]]

\* the empty dict {} and the empty str ""
EmptyDict == VDict(<<>>)

EmptyStr == VStr(<<>>)

\* bool(v): Python truthiness
Truthy(v) ==
    CASE v.t = "str" -> v.s # <<>>
      [] v.t = "int" -> v.n # 0
      [] v.t = "bool" -> v.n = 1
      [] v.t = "NoneType" -> FALSE
      [] OTHER -> v.kv # <<>>

\* key in d, for a dict d
HasKey(d, key) == \E i \in 1..Len(d.kv) : d.kv[i][1] = key

\* d[key], for a dict d that has the key
Item(d, key) == d.kv[CHOOSE i \in 1..Len(d.kv) : d.kv[i][1] = key][2]

\* d.get(key, default), for a dict d
Get(d, key, default) == IF HasKey(d, key) THEN Item(d, key) ELSE default

Digits == <<"0", "1", "2", "3", "4", "5", "6", "7", "8", "9">>

RECURSIVE NatStr(_)
NatStr(n) == IF n < 10 THEN <<Digits[n + 1]>> ELSE NatStr(n \div 10) \o <<Digits[(n % 10) + 1]>>

\* str(n) for an int n
IntStr(n) == IF n < 0 THEN <<"-">> \o NatStr(-n) ELSE NatStr(n)

\* one character of repr(s) for a str (no quote characters occur in the model)
ReprChar(c) ==
    CASE c = "\n" -> <<"\\", "n">>
      [] c = "\\" -> <<"\\", "\\">>
      [] OTHER -> <<c>>

RECURSIVE PyRepr(_)
\* repr(v): what str() of a dict or list shows for each element
PyRepr(v) ==
    CASE v.t = "str" -> <<"'">> \o Concat([i \in 1..Len(v.s) |-> ReprChar(v.s[i])]) \o <<"'">>
      [] v.t = "int" -> IntStr(v.n)
      [] v.t = "bool" -> IF v.n = 1 THEN <<"T","r","u","e">> ELSE <<"F","a","l","s","e">>
      [] v.t = "NoneType" -> <<"N","o","n","e">>
      [] v.t = "dict" ->
            <<"{">> \o Join(<<","," ">>, [i \in 1..Len(v.kv) |->
                        PyRepr(VStr(v.kv[i][1])) \o <<":"," ">> \o PyRepr(v.kv[i][2])]) \o <<"}">>
      [] OTHER ->
            <<"[">> \o Join(<<","," ">>, [i \in 1..Len(v.kv) |-> PyRepr(v.kv[i][2])]) \o <<"]">>

\* str(v), and what an f-string shows for {v}
PyStr(v) == IF v.t = "str" THEN v.s ELSE PyRepr(v)

-----------------------------------------------------------------------------
(* safe_str                                                                *)

\* a plausible slip: the cut leaves room for the marker inside max_len
safe_str_cut_short(value, max_len) ==
    LET result == PyStr(value)
    IN  IF Len(result) > max_len
        THEN SliceTo(result, max_len - 3) \o <<".",".",".">>
        ELSE result

\* safe_str(value, max_len) with max_len given (every call in the file gives it)
safe_str(value, max_len) ==
    LET result == PyStr(value)
    IN  IF Len(result) > max_len
        THEN SliceTo(result, max_len) \o <<".",".",".">>
        ELSE result

-----------------------------------------------------------------------------
(* str methods used by the file.                                           *)

LowerCase == <<"a","b","c","d","e","f","g","h","i","j","k","l","m","n","o","p","q","r","s","t","u","v","w","x","y","z">>

UpperCase == <<"A","B","C","D","E","F","G","H","I","J","K","L","M","N","O","P","Q","R","S","T","U","V","W","X","Y","Z">>

IsLower(c) == \E i \in 1..26 : LowerCase[i] = c

IsUpper(c) == \E i \in 1..26 : UpperCase[i] = c

IsCased(c) == IsLower(c) \/ IsUpper(c)

ToUpper(c) == IF IsLower(c) THEN UpperCase[CHOOSE i \in 1..26 : LowerCase[i] = c] ELSE c

ToLower(c) == IF IsUpper(c) THEN LowerCase[CHOOSE i \in 1..26 : UpperCase[i] = c] ELSE c

\* s.replace(a, b) for single characters a and b
Replace(s, a, b) == [i \in 1..Len(s) |-> IF s[i] = a THEN b ELSE s[i]]

\* s.title(): a cased character is upper-cased unless it follows a cased one
Title(s) ==
    [i \in 1..Len(s) |->
        IF i > 1 /\ IsCased(s[i - 1]) THEN ToLower(s[i]) ELSE ToUpper(s[i])]

IsSpace(c) == c \in {" ", "\t", "\n", "\r", "\f"}

\* s.strip()
Strip(s) ==
    LET keep == {i \in 1..Len(s) : ~IsSpace(s[i])}
    IN  IF keep = {} THEN <<>>
        ELSE SubSeq(s, CHOOSE i \in keep : \A j \in keep : i <= j,
                       CHOOSE i \in keep : \A j \in keep : i >= j)

\* s.split("\n"): the pieces between the line breaks, at least one piece
Split(s) ==
    LET brk == {i \in 1..Len(s) : s[i] = "\n"}
        \* the k-th piece runs from after the (k-1)-th break to before the k-th
        lo(k) == IF k = 1 THEN 1
                 ELSE 1 + CHOOSE i \in brk : Cardinality({j \in brk : j < i}) = k - 2
        hi(k) == IF k = Cardinality(brk) + 1 THEN Len(s)
                 ELSE (CHOOSE i \in brk : Cardinality({j \in brk : j < i}) = k - 1) - 1
    IN  [k \in 1..(Cardinality(brk) + 1) |-> SubSeq(s, lo(k), hi(k))]

\* a in s for two strs: a occurs in s as a substring
IsSubstring(a, s) ==
    \E i \in 1..(Len(s) - Len(a) + 1) : SubSeq(s, i, i + Len(a) - 1) = a

-----------------------------------------------------------------------------
(* The console: segments and results.                                      *)

NL == <<"\n">>

\* the "  <L>  " tree prefix printed before every body line
Prefix == <<" ", " ", "<L>", " ", " ">>

\* one console.print call made at source line ln
Seg(ln, text, style, end) == [ln |-> ln, text |-> text, style |-> style, end |-> end]

\* the statement sequence ran to its end having printed out
Ok(out) == [out |-> out, raised |-> FALSE, exc |-> "", msg |-> <<>>]

\* an exception left the function after out was printed
Raise(out, exc, msg) == [out |-> out, raised |-> TRUE, exc |-> exc, msg |-> msg]

\* the characters the terminal receives for a sequence of segments
Flat(out) == Concat([i \in 1..Len(out) |-> out[i].text \o out[i].end])

Quoted(name) == <<"'">> \o name \o <<"'">>

\* the Python type name of v, as characters
TypeName(v) ==
    CASE v.t = "str" -> <<"s","t","r">>
      [] v.t = "int" -> <<"i","n","t">>
      [] v.t = "bool" -> <<"b","o","o","l">>
      [] v.t = "NoneType" -> <<"N","o","n","e","T","y","p","e">>
      [] v.t = "dict" -> <<"d","i","c","t">>
      [] OTHER -> <<"l","i","s","t">>

\* v.attr where type(v) has no such attribute
NoAttribute(out, v, attr) ==
    Raise(out, "AttributeError",
          Quoted(TypeName(v)) \o <<" ","o","b","j","e","c","t"," ","h","a","s"," ","n","o"," ","a","t","t","r","i","b","u","t","e"," ">> \o Quoted(attr))

-----------------------------------------------------------------------------
(* get_event_style                                                         *)

KnownTypes == { <<"t","o","o","l","_","u","s","e">>, <<"s","t","e","p","_","s","t","a","r","t">>, <<"s","t","e","p","_","f","i","n","i","s","h">>, <<"t","e","x","t">>, <<"e","r","r","o","r">>,
                <<"t","h","i","n","k","i","n","g">>, <<"s","e","s","s","i","o","n","_","s","t","a","r","t">>, <<"s","e","s","s","i","o","n","_","e","n","d">> }

\* event_styles.get(event_type, ("<dot>", dim)) for a hashable event_type
get_event_style(event_type) ==
    IF event_type.t # "str" THEN <<"<dot>", "dim">>
    ELSE CASE event_type.s = <<"t","o","o","l","_","u","s","e">> -> <<"<tool>", "cyan">>
           [] event_type.s = <<"s","t","e","p","_","s","t","a","r","t">> -> <<"<play>", "blue">>
           [] event_type.s = <<"s","t","e","p","_","f","i","n","i","s","h">> -> <<"<check>", "green">>
           [] event_type.s = <<"t","e","x","t">> -> <<"<speech>", "reset">>
           [] event_type.s = <<"e","r","r","o","r">> -> <<"<cross>", "red">>
           [] event_type.s = <<"t","h","i","n","k","i","n","g">> -> <<"<think>", "magenta">>
           [] event_type.s = <<"s","e","s","s","i","o","n","_","s","t","a","r","t">> -> <<"<rocket>", "bright+green">>
           [] event_type.s = <<"s","e","s","s","i","o","n","_","e","n","d">> -> <<"<flag>", "bright+blue">>
           [] OTHER -> <<"<dot>", "dim">>

-----------------------------------------------------------------------------
(* format_opencode_event, branch by branch.  Each branch takes the         *)
(* segments printed so far and returns a result.                           *)

\* the keys scanned by the tool_use branch, in the order of the list literal
PriorityKeys == << <<"p","a","t","h">>, <<"f","i","l","e","_","p","a","t","h">>, <<"c","o","m","m","a","n","d">>, <<"q","u","e","r","y">>, <<"p","a","t","t","e","r","n">>, <<"u","r","l">> >>

\* key in tool_input, for the container types on which `in` is defined
Contains(tool_input, key) ==
    CASE tool_input.t = "dict" -> HasKey(tool_input, key)
      [] tool_input.t = "str" -> IsSubstring(key, tool_input.s)
      [] OTHER -> \E i \in 1..Len(tool_input.kv) : tool_input.kv[i][2] = VStr(key)

\* tool_input[key] where tool_input is a str or a list
BadIndex(out, tool_input) ==
    Raise(out, "TypeError",
          IF tool_input.t = "str" THEN <<"s","t","r","i","n","g"," ","i","n","d","i","c","e","s"," ","m","u","s","t"," ","b","e"," ","i","n","t","e","g","e","r","s",","," ","n","o","t"," ","'","s","t","r","'">>
          ELSE <<"l","i","s","t"," ","i","n","d","i","c","e","s"," ","m","u","s","t"," ","b","e"," ","i","n","t","e","g","e","r","s"," ","o","r"," ","s","l","i","c","e","s",","," ","n","o","t"," ","s","t","r">>)

\* a plausible slip: the scan follows the payload's key order, not the fixed order
RECURSIVE ScanPayloadOrder(_, _, _)
ScanPayloadOrder(out, tool_input, k) ==
    IF tool_input.t # "dict" \/ k > Len(tool_input.kv) THEN Ok(out)
    ELSE LET key == tool_input.kv[k][1]
         IN  IF \E j \in 1..Len(PriorityKeys) : PriorityKeys[j] = key
             THEN Ok(out \o << Seg(108, Prefix, "", <<>>),
                               Seg(109, key \o <<":"," ">>, "dim", <<>>),
                               Seg(110, safe_str(tool_input.kv[k][2], 80), "green", NL) >>)
             ELSE ScanPayloadOrder(out, tool_input, k + 1)

RECURSIVE ScanKeys(_, _, _)
\* lines 106-115: the for loop over the priority keys, from the k-th key on
ScanKeys(out, tool_input, k) ==
    IF k > Len(PriorityKeys) THEN Ok(out)
    ELSE LET key == PriorityKeys[k]
         IN  IF tool_input.t \in {"int", "bool"}
             THEN Raise(out, "TypeError",
                        <<"a","r","g","u","m","e","n","t"," ","o","f"," ","t","y","p","e"," ">> \o Quoted(TypeName(tool_input)) \o <<" ","i","s"," ","n","o","t"," ","i","t","e","r","a","b","l","e">>)
             ELSE IF Contains(tool_input, key)
             THEN LET o1 == out \o << Seg(108, Prefix, "", <<>>),
                                      Seg(109, key \o <<":"," ">>, "dim", <<>>) >>
                  IN  IF tool_input.t = "dict"
                      THEN Ok(o1 \o << Seg(110, safe_str(Item(tool_input, key), 80), "green", NL) >>)
                      ELSE BadIndex(o1, tool_input)
             ELSE ScanKeys(out, tool_input, k + 1)

\* lines 83-115
ToolUse(out, part) ==
    IF part.t # "dict" THEN NoAttribute(out, part, <<"g","e","t">>)
    ELSE
    LET tool_name == Get(part, <<"t","o","o","l">>, VStr(<<"u","n","k","n","o","w","n">>))
        tool_state == Get(part, <<"s","t","a","t","e">>, EmptyDict)
    IN  IF tool_state.t # "dict" THEN NoAttribute(out, tool_state, <<"g","e","t">>)
        ELSE
        LET tool_title == Get(tool_state, <<"t","i","t","l","e">>, EmptyStr)
            tool_input == Get(tool_state, <<"i","n","p","u","t">>, EmptyDict)
            tool_status == Get(tool_state, <<"s","t","a","t","u","s">>, EmptyStr)
            o1 == out \o << Seg(91, <<" ","(">> \o PyStr(tool_name) \o <<")">>, "cyan", <<>>) >>
            o2 == IF Truthy(tool_status)
                  THEN o1 \o << Seg(95, <<" ","[">> \o PyStr(tool_status) \o <<"]">>,
                                    IF tool_status = VStr(<<"c","o","m","p","l","e","t","e","d">>) THEN "green" ELSE "yellow",
                                    <<>>) >>
                  ELSE o1
            o3 == o2 \o << Seg(97, <<>>, "", NL) >>
            o4 == IF Truthy(tool_title)
                  THEN o3 \o << Seg(101, Prefix, "", <<>>),
                                Seg(102, <<"T","i","t","l","e",":"," ">> \o PyStr(tool_title), "dim", NL) >>
                  ELSE o3
        IN  IF Truthy(tool_input) THEN ScanKeys(o4, tool_input, 1) ELSE Ok(o4)

\* lines 117-122
StepStart(out, part) ==
    IF part.t # "dict" THEN NoAttribute(out, part, <<"g","e","t">>)
    ELSE
    LET step_type == Get(part, <<"t","y","p","e">>, EmptyStr)
    IN  IF Truthy(step_type)
        THEN Ok(out \o << Seg(120, <<" ","-"," ">> \o PyStr(step_type), "blue", NL) >>)
        ELSE Ok(out \o << Seg(122, <<>>, "", NL) >>)

IsNumber(v) == v.t \in {"int", "bool"}

\* lines 124-138
StepFinish(out, part) ==
    IF part.t # "dict" THEN NoAttribute(out, part, <<"g","e","t">>)
    ELSE
    LET step_type == Get(part, <<"t","y","p","e">>, EmptyStr)
        time_info == Get(part, <<"t","i","m","e">>, EmptyDict)
    IN  IF time_info.t # "dict" THEN NoAttribute(out, time_info, <<"g","e","t">>)
        ELSE
        LET start_time == Get(time_info, <<"s","t","a","r","t">>, VNone)
            end_time == Get(time_info, <<"e","n","d">>, VNone)
            compute == Truthy(start_time) /\ Truthy(end_time)
        IN  IF compute /\ ~(IsNumber(start_time) /\ IsNumber(end_time))
            THEN Raise(out, "TypeError",
                       <<"u","n","s","u","p","p","o","r","t","e","d"," ","o","p","e","r","a","n","d"," ","t","y","p","e","(","s",")"," ","f","o","r"," ","-",":"," ">> \o Quoted(TypeName(end_time))
                        \o <<" ","a","n","d"," ">> \o Quoted(TypeName(start_time)))
            ELSE
            LET duration == IF compute THEN VInt(end_time.n - start_time.n) ELSE VNone
                o1 == IF Truthy(step_type)
                      THEN out \o << Seg(135, <<" ","-"," ">> \o PyStr(step_type), "green", <<>>) >>
                      ELSE out
                o2 == IF Truthy(duration)
                      THEN o1 \o << Seg(137, <<" ","(">> \o IntStr(duration.n) \o <<"m","s",")">>, "dim", <<>>) >>
                      ELSE o1
            IN  Ok(o2 \o << Seg(138, <<>>, "", NL) >>)

\* the source lines of the console.print calls of the text and thinking branches
TextAt == [nl |-> 144, pre |-> 150, body |-> 152, more_pre |-> 155, more |-> 156, empty |-> 158]

ThinkingAt == [nl |-> 164, pre |-> 170, body |-> 171, more_pre |-> 174, more |-> 175, empty |-> 177]

\* lines 148-152 (text) and 168-171 (thinking): the loop over lines[:lines_to_show],
\* from index i on; first_always is the `or i == 0` of the text branch
RECURSIVE ShowLines(_, _, _, _, _)
ShowLines(lines, i, lines_to_show, first_always, at) ==
    IF i >= lines_to_show THEN <<>>
    ELSE (IF Strip(lines[i + 1]) # <<>> \/ (first_always /\ i = 0)
          THEN << Seg(at.pre, Prefix, "", <<>>),
                  Seg(at.body, lines[i + 1],
                      IF first_always THEN (IF i = 0 THEN "reset" ELSE "dim") ELSE "magenta",
                      NL) >>
          ELSE <<>>)
         \o ShowLines(lines, i + 1, lines_to_show, first_always, at)

\* a plausible slip: the summary counts one line too many
RemainingOffByOne(n_lines, lines_to_show) == n_lines - lines_to_show + 1

\* lines 156 and 175: len(lines) - lines_to_show
Remaining(n_lines, lines_to_show) == n_lines - lines_to_show

\* lines 140-158 (cap 5, first line always shown) and 160-177 (cap 3)
TextLike(out, part, cap, first_always, at) ==
    IF part.t # "dict" THEN NoAttribute(out, part, <<"g","e","t">>)
    ELSE
    LET text_content == Get(part, <<"t","e","x","t">>, EmptyStr)
    IN  IF ~Truthy(text_content)
        THEN Ok(out \o << Seg(at.empty, <<>>, "", NL) >>)
        ELSE
        LET o1 == out \o << Seg(at.nl, <<>>, "", NL) >>
        IN  IF text_content.t # "str" THEN NoAttribute(o1, text_content, <<"s","p","l","i","t">>)
            ELSE
            LET lines == Split(text_content.s)
                lines_to_show == Min(cap, Len(lines))
                o2 == o1 \o ShowLines(lines, 0, lines_to_show, first_always, at)
                o3 == IF Len(lines) > lines_to_show
                      THEN o2 \o << Seg(at.more_pre, Prefix, "", <<>>),
                                    Seg(at.more,
                                        <<".",".","."," ","(">> \o IntStr(Remaining(Len(lines), lines_to_show))
                                            \o <<" ","m","o","r","e"," ","l","i","n","e","s",")">>, "dim", NL) >>
                      ELSE o2
            IN  Ok(o3)

\* lines 179-186
ErrorEvent(out, error_data) ==
    IF error_data.t # "dict" THEN NoAttribute(out, error_data, <<"g","e","t">>)
    ELSE
    LET error_name == Get(error_data, <<"n","a","m","e">>, VStr(<<"E","r","r","o","r">>))
        data == Get(error_data, <<"d","a","t","a">>, EmptyDict)
    IN  IF data.t # "dict" THEN NoAttribute(out, data, <<"g","e","t">>)
        ELSE
        LET error_msg == Get(data, <<"m","e","s","s","a","g","e">>, VStr(PyStr(error_data)))
        IN  Ok(out \o << Seg(183, <<>>, "", NL),
                         Seg(184, Prefix, "", <<>>),
                         Seg(185, PyStr(error_name) \o <<":"," ">>, "red+bright", <<>>),
                         Seg(186, safe_str(error_msg, 200), "red", NL) >>)

\* lines 192-200
Fallback(out, part, error_data) ==
    LET data_to_show == IF Truthy(part) THEN part ELSE error_data
    IN  IF Truthy(data_to_show)
        THEN Ok(out \o << Seg(196, <<>>, "", NL),
                          Seg(197, Prefix, "", <<>>),
                          Seg(198, safe_str(data_to_show, 100), "dim", NL) >>)
        ELSE Ok(out \o << Seg(200, <<>>, "", NL) >>)

\* lines 70-77: the debug prefix
DebugPrefix(timestamp, session_id) ==
    LET stamp == IF Truthy(timestamp) THEN << <<"[">> \o PyStr(timestamp) \o <<"]">> >> ELSE <<>>
    IN  IF ~Truthy(session_id)
        THEN Ok(IF stamp # <<>> THEN << Seg(77, Join(<<" ">>, stamp), "dim", <<" ">>) >> ELSE <<>>)
        ELSE IF session_id.t = "str" \/ session_id.t = "list"
        THEN LET cut == IF session_id.t = "str" THEN SliceTo(session_id.s, 8)
                        ELSE PyStr([session_id EXCEPT !.kv = SliceTo(@, 8)])
                 debug_info == stamp \o << <<"(","s","e","s","s","i","o","n",":"," ">> \o cut \o <<".",".",".",")">> >>
             IN  Ok(<< Seg(77, Join(<<" ">>, debug_info), "dim", <<" ">>) >>)
        ELSE Raise(<<>>, "TypeError",
                   IF session_id.t = "dict" THEN <<"u","n","h","a","s","h","a","b","l","e"," ","t","y","p","e",":"," ","'","s","l","i","c","e","'">>
                   ELSE Quoted(TypeName(session_id)) \o <<" ","o","b","j","e","c","t"," ","i","s"," ","n","o","t"," ","s","u","b","s","c","r","i","p","t","a","b","l","e">>)

\* line 202: the console.print() that closes every event
CloseEvent(r) == IF r.raised THEN r ELSE Ok(r.out \o << Seg(202, <<>>, "", NL) >>)

\* line 80: event_type.replace("_", " ").title()
HeaderLabel(out, event_type, style) ==
    IF event_type.t # "str" THEN NoAttribute(out, event_type, <<"r","e","p","l","a","c","e">>)
    ELSE Ok(out \o << Seg(80, Title(Replace(event_type.s, "_", " ")), style, <<>>) >>)

\* lines 83-200: the dispatch on event_type (a str here)
Dispatch(out, event_type, part, error_data) ==
    CASE event_type.s = <<"t","o","o","l","_","u","s","e">> -> ToolUse(out, part)
      [] event_type.s = <<"s","t","e","p","_","s","t","a","r","t">> -> StepStart(out, part)
      [] event_type.s = <<"s","t","e","p","_","f","i","n","i","s","h">> -> StepFinish(out, part)
      [] event_type.s = <<"t","e","x","t">> -> TextLike(out, part, 5, TRUE, TextAt)
      [] event_type.s = <<"t","h","i","n","k","i","n","g">> -> TextLike(out, part, 3, FALSE, ThinkingAt)
      [] event_type.s = <<"e","r","r","o","r">> -> ErrorEvent(out, error_data)
      [] event_type.s \in { <<"s","e","s","s","i","o","n","_","s","t","a","r","t">>, <<"s","e","s","s","i","o","n","_","e","n","d">> } -> Ok(out \o << Seg(190, <<>>, "", NL) >>)
      [] OTHER -> Fallback(out, part, error_data)

\* lines 56-202
format_opencode_event(ev, dbg) ==
    IF ev.t # "dict" THEN NoAttribute(<<>>, ev, <<"g","e","t">>)
    ELSE
    LET event_type == Get(ev, <<"t","y","p","e">>, VStr(<<"u","n","k","n","o","w","n">>))
        timestamp == Get(ev, <<"t","i","m","e","s","t","a","m","p">>, EmptyStr)
        session_id == Get(ev, <<"s","e","s","s","i","o","n","I","D">>, EmptyStr)
        part == Get(ev, <<"p","a","r","t">>, EmptyDict)
        error_data == Get(ev, <<"e","r","r","o","r">>, EmptyDict)
    IN  IF event_type.t \in {"dict", "list"}
        THEN Raise(<<>>, "TypeError", <<"u","n","h","a","s","h","a","b","l","e"," ","t","y","p","e",":"," ">> \o Quoted(TypeName(event_type)))
        ELSE
        LET icon == get_event_style(event_type)[1]
            style == get_event_style(event_type)[2]
            d == IF dbg THEN DebugPrefix(timestamp, session_id) ELSE Ok(<<>>)
        IN  IF d.raised THEN d
            ELSE
            LET h == HeaderLabel(d.out \o << Seg(79, <<icon, " ">>, "", <<>>) >>, event_type, style)
            IN  IF h.raised THEN h
                ELSE CloseEvent(Dispatch(h.out, event_type, part, error_data))

-----------------------------------------------------------------------------
(* json.loads, for the JSON the model's lines use: objects, arrays,        *)
(* strings with the escapes \n \t \r \" \\ \/, integers and the three      *)
(* literals.  A parse returns [ok, val, pos]: pos is the index after the   *)
(* value.  (Fractions, exponents, \u escapes, NaN and Infinity do not      *)
(* occur in the model's lines.)                                            *)

ParseFail == [ok |-> FALSE, val |-> VNone, pos |-> 0]

Parsed(v, pos) == [ok |-> TRUE, val |-> v, pos |-> pos]

IsDigit(c) == c \in {"0", "1", "2", "3", "4", "5", "6", "7", "8", "9"}

DigitValue(c) == (CHOOSE i \in 1..10 : Digits[i] = c) - 1

RECURSIVE SkipWs(_, _)
\* the first index from i on that holds no JSON whitespace
SkipWs(s, i) ==
    IF i <= Len(s) /\ s[i] \in {" ", "\t", "\n", "\r"} THEN SkipWs(s, i + 1) ELSE i

RECURSIVE ScanString(_, _, _)
\* the rest of a string literal from index j on, acc its characters so far
ScanString(s, j, acc) ==
    IF j > Len(s) THEN ParseFail
    ELSE IF s[j] = "\"" THEN Parsed(VStr(acc), j + 1)
    ELSE IF s[j] = "\\"
    THEN IF j + 1 > Len(s) THEN ParseFail
         ELSE CASE s[j + 1] = "n" -> ScanString(s, j + 2, Append(acc, "\n"))
                [] s[j + 1] = "t" -> ScanString(s, j + 2, Append(acc, "\t"))
                [] s[j + 1] = "r" -> ScanString(s, j + 2, Append(acc, "\r"))
                [] s[j + 1] \in {"\"", "\\", "/"} -> ScanString(s, j + 2, Append(acc, s[j + 1]))
                [] OTHER -> ParseFail
    ELSE IF s[j] \in {"\n", "\t", "\r", "\f"} THEN ParseFail
    ELSE ScanString(s, j + 1, Append(acc, s[j]))

RECURSIVE ScanDigits(_, _, _)
\* the digits from index j on, acc the number read so far
ScanDigits(s, j, acc) ==
    IF j <= Len(s) /\ IsDigit(s[j]) THEN ScanDigits(s, j + 1, 10 * acc + DigitValue(s[j]))
    ELSE [n |-> acc, pos |-> j]

\* an integer literal at index i: -?(0|[1-9][0-9]*)
ParseInt(s, i) ==
    LET neg == s[i] = "-"
        j == IF neg THEN i + 1 ELSE i
    IN  IF j > Len(s) \/ ~IsDigit(s[j]) THEN ParseFail
        ELSE IF s[j] = "0" THEN Parsed(VInt(0), j + 1)
        ELSE LET d == ScanDigits(s, j, 0)
             IN  Parsed(VInt(IF neg THEN -d.n ELSE d.n), d.pos)

\* the literal word at index i, if it is there
ParseWord(s, i, word, v) ==
    IF i + Len(word) - 1 <= Len(s) /\ SubSeq(s, i, i + Len(word) - 1) = word
    THEN Parsed(v, i + Len(word))
    ELSE ParseFail

\* d[key] = v for the pair sequence of a dict: a repeated key keeps its place
SetItem(kv, key, v) ==
    IF \E i \in 1..Len(kv) : kv[i][1] = key
    THEN [i \in 1..Len(kv) |-> IF kv[i][1] = key THEN <<key, v>> ELSE kv[i]]
    ELSE Append(kv, <<key, v>>)

RECURSIVE ParseValue(_, _)
RECURSIVE ParseItems(_, _, _)
RECURSIVE ParseMembers(_, _, _)

\* the items of an array after "[" or ",": i is at the next item
ParseItems(s, i, acc) ==
    LET item == ParseValue(s, i)
    IN  IF ~item.ok THEN ParseFail
        ELSE LET j == SkipWs(s, item.pos)
                 items == Append(acc, item.val)
             IN  IF j > Len(s) THEN ParseFail
                 ELSE IF s[j] = "]" THEN Parsed(VList(items), j + 1)
                 ELSE IF s[j] = "," THEN ParseItems(s, SkipWs(s, j + 1), items)
                 ELSE ParseFail

\* the members of an object after "{" or ",": i is at the next key
ParseMembers(s, i, acc) ==
    IF i > Len(s) \/ s[i] # "\"" THEN ParseFail
    ELSE LET key == ScanString(s, i + 1, <<>>)
         IN  IF ~key.ok THEN ParseFail
             ELSE LET c == SkipWs(s, key.pos)
                  IN  IF c > Len(s) \/ s[c] # ":" THEN ParseFail
                      ELSE LET member == ParseValue(s, SkipWs(s, c + 1))
                           IN  IF ~member.ok THEN ParseFail
                               ELSE LET j == SkipWs(s, member.pos)
                                        kv == SetItem(acc, key.val.s, member.val)
                                    IN  IF j > Len(s) THEN ParseFail
                                        ELSE IF s[j] = "}" THEN Parsed(VDict(kv), j + 1)
                                        ELSE IF s[j] = "," THEN ParseMembers(s, SkipWs(s, j + 1), kv)
                                        ELSE ParseFail

\* the JSON value that starts at index i
ParseValue(s, i) ==
    IF i > Len(s) THEN ParseFail
    ELSE CASE s[i] = "\"" -> ScanString(s, i + 1, <<>>)
           [] s[i] = "{" ->
                LET j == SkipWs(s, i + 1)
                IN  IF j <= Len(s) /\ s[j] = "}" THEN Parsed(EmptyDict, j + 1)
                    ELSE ParseMembers(s, j, <<>>)
           [] s[i] = "[" ->
                LET j == SkipWs(s, i + 1)
                IN  IF j <= Len(s) /\ s[j] = "]" THEN Parsed(VList(<<>>), j + 1)
                    ELSE ParseItems(s, j, <<>>)
           [] s[i] = "-" \/ IsDigit(s[i]) -> ParseInt(s, i)
           [] s[i] = "t" -> ParseWord(s, i, <<"t","r","u","e">>, VBool(TRUE))
           [] s[i] = "f" -> ParseWord(s, i, <<"f","a","l","s","e">>, VBool(FALSE))
           [] s[i] = "n" -> ParseWord(s, i, <<"n","u","l","l">>, VNone)
           [] OTHER -> ParseFail

\* json.loads(s): ok = FALSE stands for json.JSONDecodeError
json_loads(s) ==
    LET r == ParseValue(s, SkipWs(s, 1))
    IN  IF r.ok /\ SkipWs(s, r.pos) = Len(s) + 1 THEN r ELSE ParseFail

-----------------------------------------------------------------------------
(* The events given to format_opencode_event in SpecRender.  An optional   *)
(* field is a set of pair sequences: <<>> when the key is absent.          *)

Opt(key, values) == {<<>>} \cup { << <<key, v>> >> : v \in values }

Must(key, values) == { << <<key, v>> >> : v \in values }

\* the dicts built from one choice per field
Dicts2(f1, f2) == { VDict(a \o b) : a \in f1, b \in f2 }

Dicts3(f1, f2, f3) == { VDict(a \o b \o c) : a \in f1, b \in f2, c \in f3 }

Dicts4(f1, f2, f3, f4) == { VDict(a \o b \o c \o d) : a \in f1, b \in f2, c \in f3, d \in f4 }

KnownTypeValues == { VStr(k) : k \in KnownTypes }

\* type values: the known kinds, unrecognised kinds, and values that are no str
TypeValues ==
    KnownTypeValues \cup { VStr(<<"c","u","s","t","o","m","_","k","i","n","d">>), VStr(<<"v","2"," ","b","e","t","a">>), VInt(5), VNone, VList(<<>>) }

\* events that differ in their top-level header fields only
HeaderEvents ==
    Dicts4(Opt(<<"t","y","p","e">>, TypeValues),
           Opt(<<"t","i","m","e","s","t","a","m","p">>, { VStr(<<"1","2",":","3","0",":","0","5">>), EmptyStr, VInt(1700) }),
           Opt(<<"s","e","s","s","i","o","n","I","D">>, { VStr(<<"a","b","c","d","e","f","g","h","i","j","k","l">>), VStr(<<"a","b","c">>), EmptyStr, VInt(12345) }),
           Opt(<<"s","e","s","s","i","o","n","I","d">>, { VStr(<<"z","y","x","w","v","u","t","s","r","q","p","o">>) }))

InputKeys == { PriorityKeys[i] : i \in 1..Len(PriorityKeys) } \cup { <<"f","o","o">> }

\* the value an input payload of the model holds under each key
InputValue(key) ==
    CASE key = <<"p","a","t","h">> -> VStr(<<"/","a","/","b",".","t","x","t">>)
      [] key = <<"f","i","l","e","_","p","a","t","h">> -> VStr(Rep("p", 85))
      [] key = <<"c","o","m","m","a","n","d">> -> VStr(<<"l","s"," ","-","l","\n">>)
      [] key = <<"q","u","e","r","y">> -> VInt(42)
      [] OTHER -> VStr(key)

\* the input payloads: every ordering of every choice of at most MaxInputKeys keys
InputDicts ==
    { VDict([i \in 1..Len(ks) |-> <<ks[i], InputValue(ks[i])>>]) :
        ks \in { q \in SeqUpTo(InputKeys, MaxInputKeys) :
                    \A i, j \in 1..Len(q) : i # j => q[i] # q[j] } }

ToolStates ==
    Dicts3(Opt(<<"t","i","t","l","e">>, { VStr(<<"R","e","a","d"," ","f","i","l","e">>), EmptyStr }),
           Opt(<<"s","t","a","t","u","s">>, { VStr(<<"c","o","m","p","l","e","t","e","d">>), VStr(<<"r","u","n","n","i","n","g">>) }),
           Opt(<<"i","n","p","u","t">>, { VDict(<< <<<<"u","r","l">>, VStr(<<"u">>)>>, <<<<"p","a","t","h">>, VStr(<<"p">>)>> >>),
                           VStr(<<"f","i","l","e","_","p","a","t","h">>), VInt(3), VNone,
                           VList(<< VStr(<<"u","r","l">>), VStr(<<"q","u","e","r","y">>) >>) }))
    \cup Dicts2(Must(<<"s","t","a","t","u","s">>, { VStr(<<"c","o","m","p","l","e","t","e","d">>) }), Must(<<"i","n","p","u","t">>, InputDicts))
    \cup { VStr(<<"d","o","n","e">>), VNone }

ToolEvents ==
    Dicts2(Must(<<"t","y","p","e">>, { VStr(<<"t","o","o","l","_","u","s","e">>) }),
           Opt(<<"p","a","r","t">>, Dicts2(Opt(<<"t","o","o","l">>, { VStr(<<"r","e","a","d">>), VInt(7) }),
                               Opt(<<"s","t","a","t","e">>, ToolStates))
                        \cup { VStr(<<"p">>), VNone }))

TimeValues == { VInt(0), VInt(1000), VInt(1500), VStr(<<"n","o","o","n">>), VNone }

StepEvents ==
    Dicts2(Must(<<"t","y","p","e">>, { VStr(<<"s","t","e","p","_","s","t","a","r","t">>), VStr(<<"s","t","e","p","_","f","i","n","i","s","h">>) }),
           Opt(<<"p","a","r","t">>, Dicts2(Opt(<<"t","y","p","e">>, { VStr(<<"b","u","i","l","d">>), EmptyStr, VInt(5) }),
                               Opt(<<"t","i","m","e">>, Dicts2(Opt(<<"s","t","a","r","t">>, TimeValues),
                                                   Opt(<<"e","n","d">>, TimeValues))
                                            \cup { VStr(<<"s","o","o","n">>) }))
                        \cup { VList(<<>>) }))

\* the lines a text is joined from: empty, blank and non-blank
TextLines == { <<>>, <<" ">>, <<"a">> }

Texts == { VStr(Join(NL, ls)) : ls \in SeqUpTo(TextLines, MaxTextLines) }

TextEvents ==
    Dicts3(Must(<<"t","y","p","e">>, { VStr(<<"t","e","x","t">>), VStr(<<"t","h","i","n","k","i","n","g">>) }),
           Opt(<<"s","e","s","s","i","o","n","I","D">>, { VInt(12345) }),
           Opt(<<"p","a","r","t">>, Dicts2(Opt(<<"t","e","x","t">>, Texts \cup { VInt(5), VNone, VList(<< VStr(<<"a">>) >>) }),
                               {<<>>})
                        \cup { VStr(<<"p">>) }))

ErrorEvents ==
    Dicts2(Must(<<"t","y","p","e">>, { VStr(<<"e","r","r","o","r">>) }),
           Opt(<<"e","r","r","o","r">>, Dicts2(Opt(<<"n","a","m","e">>, { VStr(<<"T","i","m","e","o","u","t">>), VInt(5), VStr(Rep("n", 210)) }),
                                Opt(<<"d","a","t","a">>, { EmptyDict, VStr(<<"d">>), VNone,
                                               VDict(<< <<<<"m","e","s","s","a","g","e">>, VStr(<<"t","i","m","e","d"," ","o","u","t">>)>> >>),
                                               VDict(<< <<<<"m","e","s","s","a","g","e">>, VStr(Rep("m", 205))>> >>),
                                               VDict(<< <<<<"m","e","s","s","a","g","e">>, VStr(<<"g","o","n","e","\n">>)>> >>),
                                               VDict(<< <<<<"m","e","s","s","a","g","e">>, VInt(404)>> >>) }))
                         \cup { VStr(<<"b","o","o","m">>), VNone }))

UnknownEvents ==
    Dicts3(Opt(<<"t","y","p","e">>, { VStr(<<"c","u","s","t","o","m","_","k","i","n","d">>) }),
           Opt(<<"p","a","r","t">>, { EmptyDict, VDict(<< <<<<"k">>, VInt(1)>> >>),
                          VDict(<< <<<<"k">>, VStr(Rep("v", 120))>> >>),
                          VStr(<<"r","a","w">>), VStr(<<"a","\n","b">>), VInt(0), VInt(7), VNone,
                          VList(<< VInt(1) >>) }),
           Opt(<<"e","r","r","o","r">>, { EmptyDict, VDict(<< <<<<"n","a","m","e">>, VStr(<<"E">>)>> >>), VStr(<<"e">>) }))

\* decoded lines that are no JSON object
NonObjects == { VInt(42), VStr(<<"t","e","x","t">>), VNone, VList(<< EmptyDict >>) }

Events ==
    HeaderEvents \cup ToolEvents \cup StepEvents \cup TextEvents \cup ErrorEvents
        \cup UnknownEvents \cup NonObjects

-----------------------------------------------------------------------------
(* SpecRender: format_opencode_event applied to one event.                 *)

NoResult == [out |-> <<>>, raised |-> FALSE, exc |-> "", msg |-> <<>>]

InitRender ==
    /\ pc = "format"
    /\ event \in Events
    /\ debug \in BOOLEAN
    /\ res = NoResult
    /\ line = <<>> /\ nread = 0 /\ prev = "none" /\ last = "none"
    /\ console = <<>> /\ exit_code = -1
    /\ sv = EmptyStr /\ sn = 0 /\ sr = <<>> /\ sr2 = <<>>

Format ==
    /\ pc = "format"
    /\ res' = format_opencode_event(event, debug)
    /\ pc' = "formatted"
    /\ UNCHANGED <<debug, line, nread, prev, last, console, exit_code, event, sv, sn, sr, sr2>>

NextRender == Format

SpecRender == InitRender /\ [][NextRender]_vars

-----------------------------------------------------------------------------
(* Properties of format_opencode_event, read off the state of SpecRender.  *)

\* format_opencode_event has been applied to a decoded JSON object
Rendered == pc = "formatted" /\ event.t = "dict"

EventType == Get(event, <<"t","y","p","e">>, VStr(<<"u","n","k","n","o","w","n">>))

EventPart == Get(event, <<"p","a","r","t">>, EmptyDict)

\* the segments printed at source line ln, in order
SegsAt(ln) == SelectSeq(res.out, LAMBDA sg : sg.ln = ln)

\* the positions of the segments printed at source line ln
PosAt(ln) == {i \in 1..Len(res.out) : res.out[i].ln = ln}

\* the header was printed: the icon and the label
HeaderPrinted == Len(SegsAt(79)) = 1 /\ Len(SegsAt(80)) = 1

\* cs ends with a terminated line followed by one empty line, not two
EndsWithOneBlankLine(cs) ==
    /\ Len(cs) >= 3
    /\ cs[Len(cs)] = "\n" /\ cs[Len(cs) - 1] = "\n" /\ cs[Len(cs) - 2] # "\n"

\* C2: rendering any event record completes without raising and emits the
\* header and the trailing blank line, whatever keys are absent and whatever
\* the JSON types of the fields.
C2_RenderingIsTotal ==
    Rendered =>
        /\ ~res.raised
        /\ HeaderPrinted
        /\ res.out # <<>> /\ res.out[Len(res.out)].ln = 202

\* the keys of a dict, whatever their order
KeySet(d) == { d.kv[i][1] : i \in 1..Len(d.kv) }

\* the tool_use event's part.state.input, when part and state are dicts
ToolInputReached ==
    /\ EventPart.t = "dict"
    /\ Get(EventPart, <<"s","t","a","t","e">>, EmptyDict).t = "dict"

ToolInput == Get(Get(EventPart, <<"s","t","a","t","e">>, EmptyDict), <<"i","n","p","u","t">>, EmptyDict)

\* C3: for every tool_use event at most one argument line is emitted; when
\* part.state.input is a mapping, the line's key is the first key of the fixed
\* order [path, file_path, command, query, pattern, url] among the payload's
\* keys, whatever the order of the keys in the payload, its value is that
\* key's value cut to 80 characters, and no argument line is emitted when none
\* of the six keys is present.
C3_OneArgLineByPriority ==
    (Rendered /\ EventType = VStr(<<"t","o","o","l","_","u","s","e">>)) =>
        /\ Len(SegsAt(109)) <= 1
        /\ Len(SegsAt(110)) <= 1
        /\ (~res.raised /\ ToolInputReached /\ ToolInput.t = "dict") =>
              LET present == {j \in 1..Len(PriorityKeys) : PriorityKeys[j] \in KeySet(ToolInput)}
              IN  IF present = {} THEN SegsAt(109) = <<>> /\ SegsAt(110) = <<>>
                  ELSE LET first == CHOOSE j \in present : \A k \in present : j <= k
                           value == PyStr(Item(ToolInput, PriorityKeys[first]))
                       IN  /\ Len(SegsAt(109)) = 1
                           /\ SegsAt(109)[1].text = PriorityKeys[first] \o <<":"," ">>
                           /\ Len(SegsAt(110)) = 1
                           /\ SegsAt(110)[1].text =
                                IF Len(value) <= 80 THEN value
                                ELSE SubSeq(value, 1, 80) \o <<".",".",".">>

\* a payload that lists url before path was rendered with the one line path
C3_Witness ==
    /\ Rendered /\ EventType = VStr(<<"t","o","o","l","_","u","s","e">>) /\ ~res.raised
    /\ ToolInputReached /\ ToolInput.t = "dict"
    /\ Len(ToolInput.kv) = 2
    /\ ToolInput.kv[1][1] = <<"u","r","l">> /\ ToolInput.kv[2][1] = <<"p","a","t","h">>
    /\ Len(SegsAt(109)) = 1 /\ SegsAt(109)[1].text = <<"p","a","t","h",":"," ">>

\* C5: the rendering of every event ends with exactly one blank line: the last
\* content line is terminated and followed by one empty line, never zero and
\* never two.  (Stated for the renderings that complete.)
C5_OneTrailingBlankLine ==
    (Rendered /\ ~res.raised) => EndsWithOneBlankLine(Flat(res.out))

StepTime == Get(EventPart, <<"t","i","m","e">>, EmptyDict)

\* C6: for a step_finish event whose part.time.start and part.time.end are
\* both numbers, the header carries " (<end - start>ms)" exactly when
\* end - start is non-zero, after the " - <type>" suffix if there is one; when
\* either timestamp is absent there is no duration suffix.  (Stated for the
\* renderings that complete.)
C6_DurationWhenBothGiven ==
    (/\ Rendered /\ ~res.raised /\ EventType = VStr(<<"s","t","e","p","_","f","i","n","i","s","h">>)
     /\ EventPart.t = "dict" /\ StepTime.t = "dict") =>
        LET start_time == Get(StepTime, <<"s","t","a","r","t">>, VNone)
            end_time == Get(StepTime, <<"e","n","d">>, VNone)
        IN  /\ (start_time.t = "int" /\ end_time.t = "int") =>
                  IF end_time.n - start_time.n # 0
                  THEN /\ Len(SegsAt(137)) = 1
                       /\ SegsAt(137)[1].text = <<" ","(">> \o IntStr(end_time.n - start_time.n) \o <<"m","s",")">>
                       /\ \A i \in PosAt(135), j \in PosAt(137) : i < j
                  ELSE SegsAt(137) = <<>>
            /\ (~HasKey(StepTime, <<"s","t","a","r","t">>) \/ ~HasKey(StepTime, <<"e","n","d">>)) => SegsAt(137) = <<>>

IsTextLike == EventType \in { VStr(<<"t","e","x","t">>), VStr(<<"t","h","i","n","k","i","n","g">>) }

Cap == IF EventType = VStr(<<"t","e","x","t">>) THEN 5 ELSE 3

TextContent == Get(EventPart, <<"t","e","x","t">>, EmptyStr)

\* a text or thinking event with a non-empty string text was formatted
TextRendered ==
    /\ Rendered /\ IsTextLike /\ EventPart.t = "dict"
    /\ TextContent.t = "str" /\ TextContent.s # <<>>

\* the number of lines of a string: one more than its line breaks
NumLines(s) == 1 + Cardinality({i \in 1..Len(s) : s[i] = "\n"})

\* the segments of the summary line and of the content lines of the event
SummarySegs == SegsAt(IF EventType = VStr(<<"t","e","x","t">>) THEN 156 ELSE 175)

BodySegs == SegsAt(IF EventType = VStr(<<"t","e","x","t">>) THEN 152 ELSE 171)

SummaryText(k) == <<".",".","."," ","(">> \o IntStr(k) \o <<" ","m","o","r","e"," ","l","i","n","e","s",")">>

\* the lines of the content that are not blank
NonBlankLines(s) == {k \in 1..Len(Split(s)) : Strip(Split(s)[k]) # <<>>}

\* the lines of the content the skip rule lets through
NonSkipped(s) ==
    NonBlankLines(s) \cup (IF EventType = VStr(<<"t","e","x","t">>) THEN {1} ELSE {})

SessionIdentifier ==
    IF HasKey(event, <<"s","e","s","s","i","o","n","I","D">>) THEN Item(event, <<"s","e","s","s","i","o","n","I","D">>)
    ELSE Get(event, <<"s","e","s","s","i","o","n","I","d">>, EmptyStr)

IsPrefix(p, cs) == Len(p) <= Len(cs) /\ SubSeq(cs, 1, Len(p)) = p

\* C8: in debug mode the header is prefixed, before the icon, with
\* "[<timestamp>]" (when the event has a timestamp) and, when the event carries
\* a session identifier under sessionID or sessionId, with "(session: <first 8
\* characters>...)", separated by spaces; without debug there is no prefix.
\* (Stated for the renderings that complete and for string identifiers.)
C8_DebugPrefix ==
    (Rendered /\ ~res.raised) =>
        LET timestamp == Get(event, <<"t","i","m","e","s","t","a","m","p">>, EmptyStr)
            stamp == IF Truthy(timestamp)
                     THEN << <<"[">> \o PyStr(timestamp) \o <<"]">> >> ELSE <<>>
            session == IF SessionIdentifier.t = "str" /\ SessionIdentifier.s # <<>>
                       THEN << <<"(","s","e","s","s","i","o","n",":"," ">> \o SubSeq(SessionIdentifier.s, 1,
                                                      Min(8, Len(SessionIdentifier.s)))
                                \o <<".",".",".",")">> >>
                       ELSE <<>>
            icon == SegsAt(79)[1].text
        IN  IF debug /\ stamp \o session # <<>>
            THEN IsPrefix(Join(<<" ">>, stamp \o session) \o <<" ">> \o icon, Flat(res.out))
            ELSE IsPrefix(icon, Flat(res.out)) /\ SegsAt(77) = <<>>

\* C9: an event whose type is none of the eight known kinds (or is absent)
\* renders as the header with the fallback icon, then one indented line with
\* the stringified part (the error payload when part is empty) cut to 100
\* characters when either is non-empty, then the trailing blank line.
C9_FallbackForEveryOtherType ==
    (Rendered /\ EventType \notin KnownTypeValues) =>
        LET error_data == Get(event, <<"e","r","r","o","r">>, EmptyDict)
            payload == IF Truthy(EventPart) THEN EventPart ELSE error_data
            shown == IF Len(PyStr(payload)) <= 100 THEN PyStr(payload)
                     ELSE SubSeq(PyStr(payload), 1, 100) \o <<".",".",".">>
            first == CHOOSE i \in PosAt(79) : TRUE
            label == res.out[first + 1].text
            body == IF Truthy(payload) THEN Prefix \o shown \o NL ELSE <<>>
        IN  /\ ~res.raised
            /\ HeaderPrinted
            /\ res.out[first].text = <<"<dot>", " ">>
            /\ Flat(SubSeq(res.out, first, Len(res.out))) =
                  <<"<dot>", " ">> \o label \o NL \o body \o NL

-----------------------------------------------------------------------------
(* process_stream and __main__.                                            *)

\* lines 219-222: the block printed for a line json.loads rejects
ParseErrorBlock(l) ==
    << Seg(219, <<"<dot>", " ">>, "", <<>>),
       Seg(220, <<"P","a","r","s","e"," ","E","r","r","o","r">>, "red", NL),
       Seg(221, Prefix \o SliceTo(l, 80) \o <<".",".",".">>, "dim", NL),
       Seg(222, <<>>, "", NL) >>

\* a plausible slip: no except clause, the decode error leaves process_stream
DecodeErrorEscapes(l) == Raise(<<>>, "JSONDecodeError", <<"E","x","p","e","c","t","i","n","g"," ","v","a","l","u","e">>)

\* lines 218-222: except json.JSONDecodeError
OnDecodeError(l) == Ok(ParseErrorBlock(l))

\* lines 210-222: the body of the loop for one line read from sys.stdin;
\* kind tells what became of the line
HandleLine(raw, dbg) ==
    LET l == Strip(raw)
    IN  IF l = <<>> THEN [kind |-> "blank", r |-> Ok(<<>>)]
        ELSE LET p == json_loads(l)
             IN  IF ~p.ok
                 THEN [kind |-> "parse_error", r |-> OnDecodeError(l)]
                 ELSE [kind |-> "event", r |-> format_opencode_event(p.val, dbg)]

\* a plausible slip: the failure is reported but the process exits with 0
MainHandlerExitsZero(exc, msg) ==
    IF exc = "KeyboardInterrupt" THEN [code |-> 0, out |-> <<>>]
    ELSE [code |-> 0, out |-> << Seg(231, <<"E","r","r","o","r",":"," ">> \o msg, "red", NL) >>]

\* lines 226-232: what __main__ does with an exception that leaves process_stream
MainHandler(exc, msg) ==
    IF exc = "KeyboardInterrupt" THEN [code |-> 0, out |-> <<>>]
    ELSE [code |-> 1, out |-> << Seg(231, <<"E","r","r","o","r",":"," ">> \o msg, "red", NL) >>]

\* the texts of the lines the stream may hold
LineTexts ==
    { <<>>, <<" "," "," ">>, <<"n","o","t"," ","j","s","o","n"," ","a","t"," ","a","l","l">>, <<"{","\"","t","y","p","e","\"",":">>, Rep("x", 85), <<" "," ","[","1",","," ","2">>,
      <<"{","\"","t","y","p","e","\"",":","\"","s","e","s","s","i","o","n","_","s","t","a","r","t","\"","}">>,
      <<"{","\"","t","y","p","e","\"",":","\"","t","e","x","t","\"",",","\"","p","a","r","t","\"",":","{","\"","t","e","x","t","\"",":","\"","h","i","\"","}","}">>,
      <<"{","\"","t","y","p","e","\"",":","\"","e","r","r","o","r","\"",",","\"","e","r","r","o","r","\"",":","{","\"","n","a","m","e","\"",":","\"","T","i","m","e","o","u","t","\"","}","}">>,
      <<" "," ","{","\"","t","y","p","e","\"",":"," ","\"","s","t","e","p","_","f","i","n","i","s","h","\"",","," ","\"","p","a","r","t","\"",":"," ","{","\"","t","y","p","e","\"",":"," ","\"","b","u","i","l","d","\"",","," ","\"","t","i","m","e","\"",":"," ","{","\"","s","t","a","r","t","\"",":"," ","1","0","0","0",","," ","\"","e","n","d","\"",":"," ","1","5","0","0","}","}","}"," ">>,
      <<"{","\"","t","y","p","e","\"",":","\"","t","o","o","l","_","u","s","e","\"",",","\"","p","a","r","t","\"",":","{","\"","t","o","o","l","\"",":","\"","r","e","a","d","\"",",","\"","s","t","a","t","e","\"",":","{","\"","s","t","a","t","u","s","\"",":","\"","c","o","m","p","l","e","t","e","d","\"",",","\"","i","n","p","u","t","\"",":","{","\"","f","i","l","e","_","p","a","t","h","\"",":","\"","/","a","/","b",".","t","x","t","\"","}","}","}","}">>,
      <<"{","\"","t","y","p","e","\"",":","5","}">>,
      <<"{","\"","t","y","p","e","\"",":","\"","t","e","x","t","\"",",","\"","p","a","r","t","\"",":","{","\"","t","e","x","t","\"",":","7","}","}">>,
      <<"4","2">> }

\* sys.stdin yields each line with its line break; the last line may lack it
StreamLines == { t \o NL : t \in LineTexts } \cup { <<"{","\"","t","y","p","e","\"",":","\"","s","e","s","s","i","o","n","_","e","n","d","\"","}">>, <<"{","o","o","p","s">> }

Init ==
    /\ pc = "reading"
    /\ debug \in BOOLEAN
    /\ line = <<>> /\ nread = 0 /\ prev = "none" /\ last = "none"
    /\ console = <<>> /\ exit_code = -1
    /\ event = VNone /\ res = NoResult
    /\ sv = EmptyStr /\ sn = 0 /\ sr = <<>> /\ sr2 = <<>>

\* lines 209-222: one iteration of the loop; an exception that leaves it is
\* taken by __main__ (lines 230-232)
ReadLine ==
    /\ pc = "reading" /\ nread < MaxLines
    /\ \E raw \in StreamLines :
          LET h == HandleLine(raw, debug)
              m == MainHandler(h.r.exc, h.r.msg)
          IN  /\ line' = raw
              /\ nread' = nread + 1
              /\ prev' = last
              /\ IF h.r.raised
                 THEN /\ last' = "raised"
                      /\ console' = h.r.out \o m.out
                      /\ exit_code' = m.code
                      /\ pc' = "exited"
                 ELSE /\ last' = h.kind
                      /\ console' = h.r.out
                      /\ exit_code' = exit_code
                      /\ pc' = "reading"
    /\ UNCHANGED <<debug, event, res, sv, sn, sr, sr2>>

\* line 209 ends the loop at end-of-stream; process_stream returns and the
\* script ends
EndOfStream ==
    /\ pc = "reading"
    /\ pc' = "exited" /\ exit_code' = 0
    /\ prev' = last /\ last' = "eof"
    /\ line' = <<>> /\ console' = <<>>
    /\ UNCHANGED <<debug, nread, event, res, sv, sn, sr, sr2>>

\* lines 228-229: KeyboardInterrupt while the loop waits for the next line
InterruptWaiting ==
    /\ pc = "reading"
    /\ pc' = "exited" /\ exit_code' = MainHandler("KeyboardInterrupt", <<>>).code
    /\ prev' = last /\ last' = "interrupt"
    /\ line' = <<>> /\ console' = <<>>
    /\ UNCHANGED <<debug, nread, event, res, sv, sn, sr, sr2>>

\* lines 228-229: KeyboardInterrupt while a line is handled, after k of its
\* segments were printed
InterruptHandling ==
    /\ pc = "reading" /\ nread < MaxLines
    /\ \E raw \in StreamLines :
          LET h == HandleLine(raw, debug)
          IN  \E k \in 0..Len(h.r.out) :
                /\ line' = raw
                /\ nread' = nread + 1
                /\ console' = SubSeq(h.r.out, 1, k)
    /\ pc' = "exited" /\ exit_code' = MainHandler("KeyboardInterrupt", <<>>).code
    /\ prev' = last /\ last' = "interrupt"
    /\ UNCHANGED <<debug, event, res, sv, sn, sr, sr2>>

Next == ReadLine \/ EndOfStream \/ InterruptWaiting \/ InterruptHandling

Spec == Init /\ [][Next]_vars

\* the last line read was handled to its end (no interrupt cut it short)
LineHandled == nread > 0 /\ line # <<>> /\ last \notin {"interrupt", "eof"}

\* the line read last, stripped, is not empty and is not valid JSON
LineIsInvalid == Strip(line) # <<>> /\ ~json_loads(Strip(line)).ok

LineRaises ==
    /\ Strip(line) # <<>>
    /\ json_loads(Strip(line)).ok
    /\ format_opencode_event(json_loads(Strip(line)).val, debug).raised

\* C10: the process ends with status 0 at end-of-stream and when interrupted,
\* and with status 1 when handling a line raises any other failure; then the
\* failure's description is the last thing written, and no line is processed
\* after the exit.
C10_ExitStatus ==
    /\ pc = "reading" => exit_code = -1
    /\ pc = "exited" => exit_code \in {0, 1} /\ ~ENABLED Next
    /\ (pc = "exited" /\ last \in {"eof", "interrupt"}) => exit_code = 0
    /\ (LineHandled /\ LineRaises) =>
          /\ pc = "exited" /\ exit_code = 1
          /\ console # <<>>
          /\ console[Len(console)].text =
                <<"E","r","r","o","r",":"," ">> \o format_opencode_event(json_loads(Strip(line)).val, debug).msg
          /\ console[Len(console)].end = NL
    /\ exit_code = 1 => LineHandled /\ LineRaises

\* the second line of a stream raised while it was rendered: the process
\* exited with status 1 after writing the failure's description
C10_Witness ==
    /\ pc = "exited" /\ exit_code = 1 /\ nread = 2
    /\ LineRaises
    /\ console[Len(console)].ln = 231

-----------------------------------------------------------------------------
(* SpecSafeStr: safe_str applied to a string, and again to its result.     *)

SafeStrChars == {"a", "."}

InitSafeStr ==
    /\ pc = "call"
    /\ sv \in {VStr(s) : s \in SeqUpTo(SafeStrChars, MaxStrLen)}
    /\ sn \in -1..MaxLimit
    /\ sr = <<>> /\ sr2 = <<>>
    /\ debug = FALSE /\ line = <<>> /\ nread = 0 /\ prev = "none" /\ last = "none"
    /\ console = <<>> /\ exit_code = -1 /\ event = VNone /\ res = NoResult

SafeStrOnce ==
    /\ pc = "call"
    /\ sr' = safe_str(sv, sn)
    /\ pc' = "again"
    /\ UNCHANGED <<debug, line, nread, prev, last, console, exit_code, event, res, sv, sn, sr2>>

SafeStrTwice ==
    /\ pc = "again"
    /\ sr2' = safe_str(VStr(sr), sn)
    /\ pc' = "done"
    /\ UNCHANGED <<debug, line, nread, prev, last, console, exit_code, event, res, sv, sn, sr>>

NextSafeStr == SafeStrOnce \/ SafeStrTwice

SpecSafeStr == InitSafeStr /\ [][NextSafeStr]_vars

\* C4: for every string s and limit n >= 0, safe_str(s, n) is s when len(s) <= n,
\* and otherwise has length n + 3, begins with the first n characters of s and
\* ends with "..."; so its length never exceeds n + 3; and applying safe_str
\* again with the same limit changes nothing.
C4_SafeStrTruncates ==
    (sn >= 0 /\ pc # "call") =>
        /\ Len(sr) <= sn + 3
        /\ Len(sv.s) <= sn => sr = sv.s
        /\ Len(sv.s) > sn =>
              /\ Len(sr) = sn + 3
              /\ \A i \in 1..sn : sr[i] = sv.s[i]
              /\ \A i \in (sn + 1)..(sn + 3) : sr[i] = "."
        /\ pc = "done" => sr2 = sr

\* a string longer than the limit was truncated, and truncated again
C4_Witness ==
    /\ pc = "done" /\ sn >= 1 /\ Len(sv.s) > sn
    /\ sr # sv.s /\ Len(sr) = sn + 3

=============================================================================
